---- MODULE Spec2Model ----
(***************************************************************************)
(* Model of app.py: the /get message pipeline of the medical chatbot.      *)
(*                                                                         *)
(* A text is a sequence of tokens (strings); the empty text is <<>>.  A    *)
(* whitespace character is the token " ".  The remote HuggingFace          *)
(* services and the language detector are the environment: what they       *)
(* answer is chosen nondeterministically from the shapes an HTTP/JSON      *)
(* peer can produce.                                                       *)
(***************************************************************************)
EXTENDS Integers, Sequences, FiniteSets, TLC

VARIABLES
    intents,            \* the intent table loaded from intents.json
    CANDIDATE_LABELS,   \* the list of tags derived from it at startup
    workers,            \* the request slots the surrounding server runs
    remote,             \* the behaviour class of the remote services
    req                 \* per slot: the locals of get_bot_response

vars == <<intents, CANDIDATE_LABELS, workers, remote, req>>

\* Longest raw msg parameter, in tokens.
MaxMsgLen == 2

Reqs == {"w1", "w2"}

Range(s) == {s[i] : i \in DOMAIN s}

-----------------------------------------------------------------------------
(* Program constants *)

ENG_SWA_MODEL == "Rogendo/en-sw"
SWA_ENG_MODEL == "Rogendo/sw-en"
ZERO_SHOT_MODEL == "facebook/bart-large-mnli"

NOT_UNDERSTOOD == <<"Sorry, I didn't understand that.">>
USAGE_HINT == <<"Please provide ?msg=...">>

\* Python's None as a tag value.
NONE == "<None>"

\* bool(tag): None and the empty string are falsy.
Truthy(tag) == tag \notin {NONE, ""}

-----------------------------------------------------------------------------
(* Intent tables (the content of intents.json) *)

Rec(t, rs) == [tag |-> t, responses |-> rs]

HI == <<"Hi!">>
HELLO == <<"Hello there!">>
BYE == <<"Bye!">>

\* unique tags, non-empty response lists
TableRegular == <<Rec("greeting", <<HI, HELLO>>), Rec("goodbye", <<BYE>>)>>
\* a tag configured twice, the first record without responses
TableShadowed == <<Rec("greeting", <<>>), Rec("greeting", <<HI>>)>>
\* a tag configured twice, both with responses
TableDuplicate == <<Rec("goodbye", <<BYE>>), Rec("goodbye", <<HI, HELLO>>)>>
\* a record whose "responses" key is absent or empty
TableNoResponses == <<Rec("greeting", <<>>), Rec("goodbye", <<BYE>>)>>
\* no "intents" key, or an empty list
TableEmpty == <<>>

Tables == {TableRegular, TableShadowed, TableDuplicate, TableNoResponses, TableEmpty}
ConcTables == {TableRegular, TableShadowed}

Tags(table) == [i \in DOMAIN table |-> table[i].tag]

-----------------------------------------------------------------------------
(* Results of calls that may raise *)

Ok(v) == [raised |-> FALSE, exc |-> "", value |-> v]
Raise(e) == [raised |-> TRUE, exc |-> e, value |-> <<>>]

\* The exception classes the calls of the pipeline raise; all derive from
\* Exception.
ExceptionSubclasses ==
    {"LangDetectException", "RequestException", "HTTPError", "JSONDecodeError",
     "RuntimeError", "TypeError", "AttributeError", "IndexError"}

\* Mutant: the handlers are `except RuntimeError`.
Caught_RuntimeOnly(exc) == exc = "RuntimeError"

\* `except Exception` catches every subclass of Exception.
Caught(exc) == exc \in ExceptionSubclasses

-----------------------------------------------------------------------------
(* JSON bodies and HTTP replies of the remote services *)

JNull ==
    [kind |-> "null", has_error |-> FALSE, error |-> <<>>, items |-> <<>>,
     value |-> <<>>, has_labels |-> FALSE, labels |-> <<>>,
     has_scores |-> FALSE, scores |-> <<>>]
JInvalid == [JNull EXCEPT !.kind = "invalid"]      \* body is not JSON
JDict == [JNull EXCEPT !.kind = "dict"]            \* {}
JError(e) == [JDict EXCEPT !.has_error = TRUE, !.error = e]
JList(xs) == [JNull EXCEPT !.kind = "list", !.items = xs]
JStr(t) == [JNull EXCEPT !.kind = "str", !.value = t]
JLabels(hl, ls, hs, ss) ==
    [JDict EXCEPT !.has_labels = hl, !.labels = ls, !.has_scores = hs, !.scores = ss]

\* elements of a list body
ItemGenerated(t) == [kind |-> "dict", has_generated_text |-> TRUE, generated_text |-> t]
ItemOther == [kind |-> "dict", has_generated_text |-> FALSE, generated_text |-> <<>>]
ItemNumber == [kind |-> "num", has_generated_text |-> FALSE, generated_text |-> <<>>]

Http(tr, st, b) == [transport |-> tr, status |-> st, body |-> b]
NoResp == Http("none", 0, JNull)

\* What a translation model writes: nothing, or a text in its target language.
Generated(model_name) ==
    {<<>>, IF model_name = SWA_ENG_MODEL THEN <<"english">> ELSE <<"kiswahili">>}

TranslatorBodies(model_name) ==
    {JNull, JDict, JError(<<>>), JError(<<"Model is loading">>),
     JList(<<>>), JList(<<ItemOther>>), JList(<<ItemNumber>>)}
    \cup {JList(<<ItemGenerated(t)>>) : t \in Generated(model_name)}
    \cup {JStr(t) : t \in Generated(model_name) \ {<<>>}}

TranslatorRespsAny(model_name) ==
    {Http("timeout", 0, JNull), Http("ok", 503, JError(<<"Model is loading">>)),
     Http("ok", 200, JInvalid)}
    \cup {Http("ok", 200, b) : b \in TranslatorBodies(model_name)}

TranslatorRespsTypical(model_name) ==
    {Http("timeout", 0, JNull)}
    \cup {Http("ok", 200, JList(<<ItemGenerated(t)>>)) : t \in Generated(model_name) \ {<<>>}}

TranslatorResps(model_name) ==
    IF remote = "any" THEN TranslatorRespsAny(model_name)
    ELSE TranslatorRespsTypical(model_name)

LabelLists ==
    {<<>>, <<"greeting">>, <<"goodbye", "greeting">>, <<"unknown">>, <<"">>}
ScoreLists == {<<>>, <<61, 39>>}

ClassifierBodies ==
    {JNull, JList(<<>>), JError(<<"Model is loading">>)}
    \cup {JLabels(TRUE, ls, TRUE, ss) : ls \in LabelLists, ss \in ScoreLists}
    \cup {JLabels(TRUE, ls, FALSE, <<>>) : ls \in {<<"greeting">>}}
    \cup {JLabels(FALSE, <<>>, TRUE, ss) : ss \in {<<61, 39>>}}

ClassifierRespsAny ==
    {Http("timeout", 0, JNull), Http("ok", 503, JError(<<"Model is loading">>)),
     Http("ok", 200, JInvalid)}
    \cup {Http("ok", 200, b) : b \in ClassifierBodies}

ClassifierRespsTypical ==
    {Http("timeout", 0, JNull),
     Http("ok", 200, JLabels(TRUE, <<"greeting">>, TRUE, <<61, 39>>))}

ClassifierResps ==
    IF remote = "any" THEN ClassifierRespsAny ELSE ClassifierRespsTypical

-----------------------------------------------------------------------------
(* Pure functions of app.py *)

IsSpace(c) == c = " "

RECURSIVE lstrip(_)
lstrip(s) == IF s # <<>> /\ IsSpace(Head(s)) THEN lstrip(Tail(s)) ELSE s

RECURSIVE rstrip(_)
rstrip(s) ==
    IF s # <<>> /\ IsSpace(s[Len(s)]) THEN rstrip(SubSeq(s, 1, Len(s) - 1)) ELSE s

\* str.strip()
strip(s) == rstrip(lstrip(s))

\* Mutant: str(request.args.get("msg")), which turns an absent msg into "None".
ArgsGet_NoDefault(args, default) == IF args.has_msg THEN args.msg ELSE <<"None">>

\* request.args.get(key, default)
ArgsGet(args, default) == IF args.has_msg THEN args.msg ELSE default

\* langdetect.detect: a language code, or LangDetectException
detect(outcome) ==
    IF outcome = "LangDetectException" THEN Raise(outcome) ELSE Ok(outcome)

\* Mutant: every language but English is taken for the foreign one.
IsSwahili_AnyForeign(detected_language) == detected_language # "en"

\* line 100: only the code "sw" is the foreign language
IsSwahili(detected_language) == detected_language = "sw"

\* hf_post: requests.post with timeout, raise_for_status, r.json()
hf_post(resp) ==
    IF resp.transport # "ok" THEN Raise("RequestException")
    ELSE IF resp.status >= 400 THEN Raise("HTTPError")
    ELSE IF resp.body.kind = "invalid" THEN Raise("JSONDecodeError")
    ELSE Ok(resp.body)

\* str(out) of a body that is none of the handled shapes
Str(out) ==
    IF out.kind = "dict" THEN (IF out.has_error THEN <<"{'error': ''}">> ELSE <<"{}">>)
    ELSE IF out.kind = "list"
        THEN (IF out.items = <<>> THEN <<"[]">> ELSE <<"[{}]">>)
    ELSE <<"None">>

\* Mutant: the error check of lines 46-47 is missing, so an error object is
\* stringified like any other unknown shape.
translate_text_ErrorAsText(model_name, text, resp) ==
    LET post == hf_post(resp)
        out == post.value
    IN  IF post.raised THEN post
        ELSE IF out.kind = "list" /\ Len(out.items) > 0 /\ out.items[1].kind # "dict"
            THEN Raise("TypeError")
        ELSE IF out.kind = "list" /\ Len(out.items) > 0
                /\ out.items[1].has_generated_text
            THEN Ok(out.items[1].generated_text)
        ELSE IF out.kind = "str" THEN Ok(out.value)
        ELSE IF out.kind = "dict" /\ out.has_error /\ out.error # <<>>
            THEN Ok(<<"{'error': '...'}">>)
        ELSE Ok(Str(out))

translate_text(model_name, text, resp) ==
    LET post == hf_post(resp)
        out == post.value
    IN  IF post.raised THEN post
        ELSE IF out.kind = "dict" /\ out.has_error /\ out.error # <<>>
            THEN Raise("RuntimeError")
        ELSE IF out.kind = "list" /\ Len(out.items) > 0 /\ out.items[1].kind # "dict"
            THEN Raise("TypeError")      \* "generated_text" in <number>
        ELSE IF out.kind = "list" /\ Len(out.items) > 0
                /\ out.items[1].has_generated_text
            THEN Ok(out.items[1].generated_text)
        ELSE IF out.kind = "str" THEN Ok(out.value)
        ELSE Ok(Str(out))

\* Mutant: the last label and score are taken for the top ones, and the
\* fallback label is the last candidate.
classify_zero_shot_LastLabel(text, candidate_labels, resp) ==
    LET post == hf_post(resp)
        out == post.value
        labels == IF out.has_labels THEN out.labels ELSE <<>>
        scores == IF out.has_scores THEN out.scores ELSE <<>>
    IN  IF post.raised THEN post
        ELSE IF out.kind # "dict" THEN Raise("AttributeError")
        ELSE IF labels # <<>> /\ scores # <<>>
            THEN Ok(<<labels[Len(labels)], scores[Len(scores)]>>)
        ELSE IF candidate_labels = <<>> THEN Raise("IndexError")
        ELSE Ok(<<candidate_labels[Len(candidate_labels)], 0>>)

classify_zero_shot(text, candidate_labels, resp) ==
    LET post == hf_post(resp)
        out == post.value
        labels == IF out.has_labels THEN out.labels ELSE <<>>
        scores == IF out.has_scores THEN out.scores ELSE <<>>
    IN  IF post.raised THEN post
        ELSE IF out.kind # "dict" THEN Raise("AttributeError")   \* no .get
        ELSE IF labels # <<>> /\ scores # <<>> THEN Ok(<<labels[1], scores[1]>>)
        ELSE IF candidate_labels = <<>> THEN Raise("IndexError")
        ELSE Ok(<<candidate_labels[1], 0>>)

\* The loop of get_response_for_tag from record i on: the set of values
\* random.choice may return, or the fixed message.
RECURSIVE ScanIntents(_, _)
ScanIntents(i, tag) ==
    IF i > Len(intents) THEN {NOT_UNDERSTOOD}
    ELSE IF intents[i].tag = tag /\ intents[i].responses # <<>>
        THEN Range(intents[i].responses)
    ELSE ScanIntents(i + 1, tag)

\* Mutant: the loop returns at the first record whose tag matches, whether it
\* has responses or not.
RECURSIVE ScanFirstMatch(_, _)
ScanFirstMatch(i, tag) ==
    IF i > Len(intents) THEN {NOT_UNDERSTOOD}
    ELSE IF intents[i].tag = tag
        THEN (IF intents[i].responses # <<>> THEN Range(intents[i].responses)
              ELSE {NOT_UNDERSTOOD})
    ELSE ScanFirstMatch(i + 1, tag)

get_response_for_tag_FirstMatchOnly(tag) == ScanFirstMatch(1, tag)

get_response_for_tag(tag) == ScanIntents(1, tag)

-----------------------------------------------------------------------------
(* State of one request *)

Call(fn, m, t, ls) == [fn |-> fn, model |-> m, text |-> t, labels |-> ls]

NoArgs == [has_msg |-> FALSE, msg |-> <<>>]

IdleReq ==
    [pc |-> "idle", args |-> NoArgs, userText |-> <<>>,
     detected_language |-> "", is_swahili |-> FALSE,
     text_for_classification |-> <<>>, predicted_tag |-> NONE, score |-> 0,
     bot_response_en |-> <<>>, bot_response |-> <<>>, reply |-> <<>>,
     calls |-> <<>>, resp_in |-> NoResp, resp_cls |-> NoResp, resp_out |-> NoResp]

MsgTokens == {" ", "neno"}

RECURSIVE SeqsUpTo(_, _)
SeqsUpTo(S, n) ==
    IF n = 0 THEN {<<>>}
    ELSE LET shorter == SeqsUpTo(S, n - 1)
         IN  shorter \cup {Append(s, x) : s \in shorter, x \in S}

\* The query strings of GET /get: msg absent, or any short text.
Requests ==
    {NoArgs} \cup {[has_msg |-> TRUE, msg |-> m] : m \in SeqsUpTo(MsgTokens, MaxMsgLen)}

DetectOutcomes == {"en", "sw", "fr", "LangDetectException"}

Others == <<intents, CANDIDATE_LABELS, workers, remote>>

-----------------------------------------------------------------------------
(* Actions: the steps of get_bot_response *)

\* lines 86-90: read msg, strip it, answer the usage hint when it is empty
Receive(r) ==
    /\ r \in workers
    /\ req[r].pc = "idle"
    /\ \E args \in Requests :
        LET userText == strip(ArgsGet(args, <<>>))
        IN  req' = [req EXCEPT ![r] =
                IF userText = <<>>
                THEN [IdleReq EXCEPT !.pc = "done", !.args = args, !.reply = USAGE_HINT]
                ELSE [IdleReq EXCEPT !.pc = "detect", !.args = args,
                                     !.userText = userText]]
    /\ UNCHANGED Others

\* lines 92-100
Detect(r) ==
    /\ r \in workers
    /\ req[r].pc = "detect"
    /\ \E outcome \in DetectOutcomes :
        LET res == detect(outcome)
            lang == IF res.raised /\ Caught(res.exc) THEN "en" ELSE res.value
            logged == Append(req[r].calls, Call("detect", "", req[r].userText, <<>>))
        IN  req' = [req EXCEPT ![r] =
                IF res.raised /\ ~Caught(res.exc)
                THEN [req[r] EXCEPT !.pc = "aborted", !.calls = logged]
                ELSE [req[r] EXCEPT !.pc = "normalize_in", !.calls = logged,
                                    !.detected_language = lang,
                                    !.is_swahili = IsSwahili(lang)]]
    /\ UNCHANGED Others

\* lines 102-111
NormalizeIn(r) ==
    /\ r \in workers
    /\ req[r].pc = "normalize_in"
    /\ IF req[r].is_swahili
       THEN \E resp \in TranslatorResps(SWA_ENG_MODEL) :
            LET res == translate_text(SWA_ENG_MODEL, req[r].userText, resp)
                logged == Append(req[r].calls,
                            Call("translate_text", SWA_ENG_MODEL, req[r].userText, <<>>))
                called == [req[r] EXCEPT !.calls = logged, !.resp_in = resp]
            IN  req' = [req EXCEPT ![r] =
                    IF ~res.raised
                    THEN [called EXCEPT !.pc = "classify",
                                        !.text_for_classification = res.value]
                    ELSE IF Caught(res.exc)
                    THEN [called EXCEPT !.pc = "classify",
                                        !.text_for_classification = req[r].userText]
                    ELSE [called EXCEPT !.pc = "aborted"]]
       ELSE req' = [req EXCEPT ![r] =
                    [req[r] EXCEPT !.pc = "classify",
                                   !.text_for_classification = req[r].userText]]
    /\ UNCHANGED Others

\* Mutant: a failed classification falls back to the first candidate label.
ClassifyFallback_FirstLabel ==
    <<IF CANDIDATE_LABELS # <<>> THEN CANDIDATE_LABELS[1] ELSE NONE, 0>>

\* line 119: what the pipeline classifies a failed call as
ClassifyFallback == <<NONE, 0>>

\* lines 113-119: the locals of r after the classifier answered resp
ClassifyUpdate(r, resp) ==
    LET res == classify_zero_shot(req[r].text_for_classification,
                                  CANDIDATE_LABELS, resp)
        logged == Append(req[r].calls,
                    Call("classify_zero_shot", ZERO_SHOT_MODEL,
                         req[r].text_for_classification, CANDIDATE_LABELS))
        called == [req[r] EXCEPT !.calls = logged, !.resp_cls = resp]
    IN  IF ~res.raised
        THEN [called EXCEPT !.pc = "respond", !.predicted_tag = res.value[1],
                            !.score = res.value[2]]
        ELSE IF Caught(res.exc)
        THEN [called EXCEPT !.pc = "respond", !.predicted_tag = ClassifyFallback[1],
                            !.score = ClassifyFallback[2]]
        ELSE [called EXCEPT !.pc = "aborted"]

\* Mutant: a failed classifier call is attempted a second time.
Classify_Retry(r) ==
    /\ r \in workers
    /\ req[r].pc = "classify"
    /\ \E resp \in ClassifierResps :
        LET after == ClassifyUpdate(r, resp)
            first == req[r].resp_cls = NoResp
        IN  req' = [req EXCEPT ![r] =
                IF first /\ hf_post(resp).raised
                THEN [after EXCEPT !.pc = "classify"]
                ELSE after]
    /\ UNCHANGED Others

\* Mutant: the shared default list candidate_labels is consumed by the call.
Classify_PopLabel(r) ==
    /\ r \in workers
    /\ req[r].pc = "classify"
    /\ \E resp \in ClassifierResps :
        req' = [req EXCEPT ![r] = ClassifyUpdate(r, resp)]
    /\ CANDIDATE_LABELS' =
            IF CANDIDATE_LABELS = <<>> THEN <<>> ELSE Tail(CANDIDATE_LABELS)
    /\ UNCHANGED <<intents, workers, remote>>

Classify(r) ==
    /\ r \in workers
    /\ req[r].pc = "classify"
    /\ \E resp \in ClassifierResps :
        req' = [req EXCEPT ![r] = ClassifyUpdate(r, resp)]
    /\ UNCHANGED Others

\* lines 121-125
Respond(r) ==
    /\ r \in workers
    /\ req[r].pc = "respond"
    /\ IF Truthy(req[r].predicted_tag)
       THEN \E choice \in get_response_for_tag(req[r].predicted_tag) :
            req' = [req EXCEPT ![r] =
                    [req[r] EXCEPT !.pc = "normalize_out", !.bot_response_en = choice,
                                   !.calls = Append(req[r].calls,
                                        Call("get_response_for_tag", "",
                                             <<>>, <<req[r].predicted_tag>>))]]
       ELSE req' = [req EXCEPT ![r] =
                    [req[r] EXCEPT !.pc = "normalize_out",
                                   !.bot_response_en = NOT_UNDERSTOOD]]
    /\ UNCHANGED Others

\* lines 127-137
NormalizeOut(r) ==
    /\ r \in workers
    /\ req[r].pc = "normalize_out"
    /\ IF req[r].is_swahili
       THEN \E resp \in TranslatorResps(ENG_SWA_MODEL) :
            LET res == translate_text(ENG_SWA_MODEL, req[r].bot_response_en, resp)
                logged == Append(req[r].calls,
                            Call("translate_text", ENG_SWA_MODEL,
                                 req[r].bot_response_en, <<>>))
                called == [req[r] EXCEPT !.calls = logged, !.resp_out = resp]
            IN  req' = [req EXCEPT ![r] =
                    IF ~res.raised
                    THEN [called EXCEPT !.pc = "done", !.bot_response = res.value,
                                        !.reply = res.value]
                    ELSE IF Caught(res.exc)
                    THEN [called EXCEPT !.pc = "done",
                                        !.bot_response = req[r].bot_response_en,
                                        !.reply = req[r].bot_response_en]
                    ELSE [called EXCEPT !.pc = "aborted"]]
       ELSE req' = [req EXCEPT ![r] =
                    [req[r] EXCEPT !.pc = "done",
                                   !.bot_response = req[r].bot_response_en,
                                   !.reply = req[r].bot_response_en]]
    /\ UNCHANGED Others

\* The reply has been sent; the slot serves the next request.
Finish(r) ==
    /\ r \in workers
    /\ req[r].pc \in {"done", "aborted"}
    /\ req' = [req EXCEPT ![r] = IdleReq]
    /\ UNCHANGED Others

Step(r) ==
    \/ Detect(r) \/ NormalizeIn(r) \/ Classify(r) \/ Respond(r) \/ NormalizeOut(r)

-----------------------------------------------------------------------------
(* Specifications *)

Startup(tables) ==
    /\ intents \in tables
    /\ CANDIDATE_LABELS = Tags(intents)
    /\ req = [r \in Reqs |-> IdleReq]

\* one request at a time, the remote services answering anything
Init == Startup(Tables) /\ workers = {"w1"} /\ remote = "any"

\* two requests handled concurrently
InitConc == Startup(ConcTables) /\ workers = Reqs /\ remote = "typical"

Next ==
    \E r \in Reqs :
        \/ Receive(r)
        \/ Detect(r)
        \/ NormalizeIn(r)
        \/ Classify(r)
        \/ Respond(r)
        \/ NormalizeOut(r)
        \/ Finish(r)

Spec == Init /\ [][Next]_vars

\* Every call returns or times out (timeout=60), so a started run keeps
\* stepping.
FairSpec == Spec /\ WF_vars(\E r \in Reqs : Step(r))

SpecConc == InitConc /\ [][Next]_vars

-----------------------------------------------------------------------------
(* Vocabulary of the properties *)

Rank(pc) ==
    CASE pc = "idle" -> 0
      [] pc = "detect" -> 1
      [] pc = "normalize_in" -> 2
      [] pc = "classify" -> 3
      [] pc = "respond" -> 4
      [] pc = "normalize_out" -> 5
      [] pc = "done" -> 6
      [] OTHER -> 7

\* the run of r went through the given step
Past(r, step) == req[r].userText # <<>> /\ Rank(req[r].pc) > Rank(step)

CallsOf(r, fn) == SelectSeq(req[r].calls, LAMBDA c : c.fn = fn)
CallsTo(r, model_name) == SelectSeq(req[r].calls, LAMBDA c : c.model = model_name)
RemoteCalls(r) ==
    SelectSeq(req[r].calls, LAMBDA c : c.fn \in {"translate_text", "classify_zero_shot"})

Min(S) == CHOOSE x \in S : \A y \in S : x <= y

\* the remote call did not succeed: no reply in time, or a non-2xx status
TransportFailed(resp) ==
    resp.transport = "timeout" \/ (resp.transport = "ok" /\ resp.status >= 400)

Answered(resp) == resp.transport = "ok" /\ resp.status < 400

\* an object with a truthy error field
ErrorObject(b) == b.kind = "dict" /\ b.has_error /\ b.error # <<>>

\* shape (a): a non-empty list whose first element has a generated-text field
GeneratedList(b) ==
    /\ b.kind = "list"
    /\ b.items # <<>>
    /\ b.items[1].kind = "dict"
    /\ b.items[1].has_generated_text

\* a successful reply whose body is none of the accepted shapes
Malformed(resp) ==
    /\ Answered(resp)
    /\ ~GeneratedList(resp.body)
    /\ resp.body.kind # "str"
    /\ ~ErrorObject(resp.body)

-----------------------------------------------------------------------------
(* C1 *)

\* C1: when the detector returns "sw", a finished run has made exactly two
\* translation calls, Swahili->English on the user text before the classifier
\* call and English->Swahili on the selected response after it as the last
\* call of the run; for any other detected code, or a failed detection, no
\* run ever makes a translation call; no failure aborts the run.
C1_TranslationTwiceOrNever ==
    \A r \in Reqs :
        LET q == req[r]
            rc == RemoteCalls(r)
        IN  /\ q.pc # "aborted"
            /\ q.detected_language # "sw" => CallsOf(r, "translate_text") = <<>>
            /\ (q.pc = "done" /\ q.userText # <<>> /\ q.detected_language = "sw") =>
                /\ Len(CallsOf(r, "translate_text")) = 2
                /\ [i \in DOMAIN rc |-> rc[i].fn] =
                        <<"translate_text", "classify_zero_shot", "translate_text">>
                /\ rc[1].model = SWA_ENG_MODEL /\ rc[1].text = q.userText
                /\ rc[3].model = ENG_SWA_MODEL /\ rc[3].text = q.bot_response_en
                /\ q.calls[Len(q.calls)] = rc[3]

\* a Swahili run finished although the inbound translation and the
\* classification both failed
C1_Witness ==
    \E r \in Reqs :
        /\ req[r].pc = "done"
        /\ req[r].detected_language = "sw"
        /\ TransportFailed(req[r].resp_in)
        /\ TransportFailed(req[r].resp_cls)
        /\ Len(CallsOf(r, "translate_text")) = 2

-----------------------------------------------------------------------------
(* C2 *)

TranslatorFault(resp) == TransportFailed(resp) \/ (Answered(resp) /\ ErrorObject(resp.body))

\* C2: when the translator fails or answers an error object, translate_text
\* raises and the run goes on with the untranslated text of that leg: the
\* classifier gets the user text after a failed inbound leg, the reply is the
\* selected English response, and not empty, after a failed outbound leg.
C2_FaultFallsBackPerLeg ==
    \A r \in Reqs :
        LET q == req[r]
        IN  /\ q.pc # "aborted"
            /\ TranslatorFault(q.resp_in) =>
                /\ translate_text(SWA_ENG_MODEL, q.userText, q.resp_in).raised
                /\ Rank(q.pc) > Rank("normalize_in")
                /\ q.text_for_classification = q.userText
                /\ \A i \in DOMAIN CallsOf(r, "classify_zero_shot") :
                        CallsOf(r, "classify_zero_shot")[i].text = q.userText
            /\ TranslatorFault(q.resp_out) =>
                /\ translate_text(ENG_SWA_MODEL, q.bot_response_en, q.resp_out).raised
                /\ q.pc = "done"
                /\ q.reply = q.bot_response_en
                /\ q.reply # <<>>

\* both legs of one run met a fault: an error object inbound, a timeout outbound
C2_Witness ==
    \E r \in Reqs :
        /\ req[r].pc = "done"
        /\ Answered(req[r].resp_in) /\ ErrorObject(req[r].resp_in.body)
        /\ req[r].resp_out.transport = "timeout"
        /\ req[r].reply = req[r].bot_response_en

-----------------------------------------------------------------------------
(* C3 *)

\* C3: a malformed translator reply is treated as a translation failure: the
\* untranslated text of that leg is passed through unchanged.
C3_MalformedPassesThrough ==
    \A r \in Reqs :
        LET q == req[r]
        IN  /\ Malformed(q.resp_in) => q.text_for_classification = q.userText
            /\ Malformed(q.resp_out) => q.reply = q.bot_response_en

-----------------------------------------------------------------------------
(* C4 *)

HasLists(b) == b.has_labels /\ b.labels # <<>> /\ b.has_scores /\ b.scores # <<>>
MissingLists(b) == ~b.has_labels \/ ~b.has_scores

-----------------------------------------------------------------------------
(* C5 *)

\* the classifier call raised: transport, status, undecodable body, a body
\* that is no object, or the fallback on an empty candidate list
ClassifierFailed(resp) ==
    \/ TransportFailed(resp)
    \/ Answered(resp) /\ resp.body.kind # "dict"
    \/ Answered(resp) /\ resp.body.kind = "dict" /\ ~HasLists(resp.body)
          /\ intents = <<>>

\* C5: after a failed classifier call the run carries label none and
\* confidence 0, and the English response is the fixed message, chosen without
\* a lookup in the intent table.
C5_FailedClassificationNotUnderstood ==
    \A r \in Reqs :
        LET q == req[r]
        IN  ClassifierFailed(q.resp_cls) =>
                /\ q.pc \notin {"classify", "aborted"}
                /\ q.predicted_tag = NONE
                /\ q.score = 0
                /\ CallsOf(r, "get_response_for_tag") = <<>>
                /\ Past(r, "respond") => q.bot_response_en = NOT_UNDERSTOOD

\* a run whose classifier call got a 503 answered the fixed message, on a
\* table that has responses
C5_Witness ==
    \E r \in Reqs :
        /\ req[r].resp_cls.transport = "ok"
        /\ req[r].resp_cls.status >= 400
        /\ Past(r, "respond")
        /\ req[r].bot_response_en = NOT_UNDERSTOOD
        /\ intents # <<>>

-----------------------------------------------------------------------------
(* C6 *)

Matching(tag) == {i \in DOMAIN intents : intents[i].tag = tag}
Answering(tag) == {i \in Matching(tag) : intents[i].responses # <<>>}

LookedUpTags == Range(Tags(intents)) \cup {"unknown", NONE}

\* C6 as claimed: the result for a configured tag is a member of the response
\* list of the first record whose tag matches; for a tag without a record, or
\* none, it is the fixed message.
C6_FromFirstMatchingRecord ==
    /\ \A tag \in LookedUpTags :
        Matching(tag) = {} => get_response_for_tag(tag) = {NOT_UNDERSTOOD}
    /\ \A r \in Reqs :
        (Past(r, "respond") /\ Truthy(req[r].predicted_tag)) =>
            IF Matching(req[r].predicted_tag) # {}
            THEN req[r].bot_response_en \in
                    Range(intents[Min(Matching(req[r].predicted_tag))].responses)
            ELSE req[r].bot_response_en = NOT_UNDERSTOOD

\* C6 amended: the result is a member of the response list of the first record
\* whose tag matches and whose response list is not empty; when no such record
\* exists (no record with the tag, only records without responses, or the none
\* tag) it is the fixed message.
C6_FromFirstAnsweringRecord ==
    /\ \A tag \in LookedUpTags :
        get_response_for_tag(tag) =
            IF Answering(tag) # {} THEN Range(intents[Min(Answering(tag))].responses)
            ELSE {NOT_UNDERSTOOD}
    /\ \A r \in Reqs :
        (Past(r, "respond") /\ Truthy(req[r].predicted_tag)) =>
            IF Answering(req[r].predicted_tag) # {}
            THEN req[r].bot_response_en \in
                    Range(intents[Min(Answering(req[r].predicted_tag))].responses)
            ELSE req[r].bot_response_en = NOT_UNDERSTOOD

\* a lookup answered from the second record of a tag, the first having no
\* responses
C6_Witness ==
    \E r \in Reqs :
        /\ Past(r, "respond")
        /\ intents = TableShadowed
        /\ req[r].predicted_tag = "greeting"
        /\ Min(Matching("greeting")) < Min(Answering("greeting"))
        /\ req[r].bot_response_en = HI

-----------------------------------------------------------------------------
(* C7 *)

\* C7: a request without msg, or with an empty msg, is answered the usage hint
\* and has called neither the detector nor the translator nor the classifier.
C7_NoMsgNoCalls ==
    \A r \in Reqs :
        (req[r].pc # "idle" /\ (~req[r].args.has_msg \/ req[r].args.msg = <<>>)) =>
            /\ req[r].pc = "done"
            /\ req[r].reply = USAGE_HINT
            /\ req[r].calls = <<>>

\* a request without msg was answered
C7_Witness ==
    \E r \in Reqs :
        /\ req[r].pc = "done"
        /\ ~req[r].args.has_msg
        /\ req[r].reply = USAGE_HINT

-----------------------------------------------------------------------------
(* C8 *)

-----------------------------------------------------------------------------
(* C9 *)

StepOrder ==
    {<<"idle", "detect">>, <<"idle", "done">>, <<"detect", "normalize_in">>,
     <<"normalize_in", "classify">>, <<"classify", "respond">>,
     <<"respond", "normalize_out">>, <<"normalize_out", "done">>, <<"done", "idle">>}

\* C9: a run moves through Detect, Normalize-In, Classify, Respond,
\* Normalize-Out in this order and never stays in or returns to a step; it
\* calls the detector and the classifier once and each translation direction
\* at most once, also when a call failed.
C9_StrictSequenceNoRetry ==
    /\ [][\A r \in Reqs :
            req'[r] # req[r] => <<req[r].pc, req'[r].pc>> \in StepOrder]_vars
    /\ [](\A r \in Reqs :
            /\ Len(CallsOf(r, "detect")) <= 1
            /\ Len(CallsOf(r, "classify_zero_shot")) <= 1
            /\ Len(CallsTo(r, SWA_ENG_MODEL)) <= 1
            /\ Len(CallsTo(r, ENG_SWA_MODEL)) <= 1
            /\ Past(r, "classify") => Len(CallsOf(r, "classify_zero_shot")) = 1)

\* a run finished after its classifier call and both translation calls failed,
\* with one call each
C9_Witness ==
    \E r \in Reqs :
        /\ req[r].pc = "done"
        /\ req[r].resp_cls.transport = "timeout"
        /\ req[r].resp_in.transport = "timeout"
        /\ req[r].resp_out.transport = "timeout"
        /\ Len(RemoteCalls(r)) = 3

-----------------------------------------------------------------------------
(* C10 *)

\* the responses a run of its own can select for a tag
AloneResponses(tag) ==
    IF Truthy(tag) THEN get_response_for_tag(tag) ELSE {NOT_UNDERSTOOD}

\* C10: while requests interleave, no step changes the intent table or the
\* candidate labels, a step of one request leaves the locals of every other
\* request alone, every classifier call carries the labels of the table as
\* loaded, and the response a request selects is one it could select alone.
C10_NoSharedMutableState ==
    /\ [][/\ intents' = intents
          /\ CANDIDATE_LABELS' = CANDIDATE_LABELS
          /\ \A r, s \in Reqs : (r # s /\ req'[r] # req[r]) => req'[s] = req[s]]_vars
    /\ [](/\ CANDIDATE_LABELS = Tags(intents)
          /\ \A r \in Reqs :
                /\ \A i \in DOMAIN CallsOf(r, "classify_zero_shot") :
                        CallsOf(r, "classify_zero_shot")[i].labels = Tags(intents)
                /\ Past(r, "respond") =>
                        req[r].bot_response_en \in AloneResponses(req[r].predicted_tag))

\* two requests are in flight at different steps, one of them classified
C10_Witness ==
    /\ req["w1"].pc = "normalize_out"
    /\ req["w2"].pc = "classify"
    /\ req["w1"].predicted_tag = "greeting"
    /\ req["w2"].is_swahili

====
